---- MODULE Spec2Model ----
(***************************************************************************)
(* Model of dataset_manager/utils/utils.py (class Utils): the YOLO         *)
(* coordinate conversion, the annotation writer, the hand selection, the   *)
(* box drawing, the centred crop and the collision-avoiding save.          *)
(*                                                                         *)
(* Real numbers are kept exact.  A normalised landmark coordinate is       *)
(* k / LmDen, so a pixel-space value (coordinate * width) is carried as    *)
(* the integer k * width, counted in units of 1/LmDen pixel.               *)
(***************************************************************************)
EXTENDS Integers, Sequences, FiniteSets, TLC

VARIABLES
    \* ---- Save_resized_hand
    files,          \* the file system: path -> id of the image stored there
    size_data,      \* self.size_data
    savePc,         \* position in Save_resized_hand
    count,          \* argument count
    hand_type,      \* argument hand_type
    resized_hand,   \* argument resized_hand (an image id)
    actionIdx,      \* position of "for action in self.actions"
    sequence,       \* loop variable of "for sequence in range(...)"
    index,          \* probe index of the while loop
    outcome,        \* how the last call ended: "none", "returned", "exited"
    \* ---- convert_to_yolo_format
    yoloIn,         \* [w, h, box] the arguments
    yoloOut,        \* the formatted 4-tuple, or <<>> before the call
    \* ---- anotation_data
    annFile,        \* the annotation file: a sequence of lines
    annPc,          \* position in anotation_data
    annArgs,        \* [results, shape, class_index]
    annHandles,     \* open handles on the annotation file
    annErr,         \* the exception the last call raised, "none" if none
    annBox,         \* the key_points handed to convert_to_yolo_format, <<>> if none
    \* ---- Detect_hand_type
    positions,      \* the caller's accumulator list
    detPc,          \* position in Detect_hand_type
    detArgs,        \* [hand_type, results, shape]
    detPrior,       \* the accumulator when the call started
    detRet,         \* what the call returned: "positions" (the list passed in), "None", "nothing"
    detErr,         \* the exception the call raised, "none" if none
    \* ---- Draw_Bound_Boxes
    frame,          \* the frame buffer: the sequence of shapes drawn on it
    drawPc,
    drawArgs,       \* [positions, shape, cls]
    \* ---- Get_image_resized
    cropPc,
    cropArgs,       \* [positions, shape]
    cropRegion,     \* <<x1, y1, x2, y2>> of the slice, <<>> before the call
    cropOut,        \* shape of the returned image, <<>> if none
    cropErr         \* the exception the call raised, "none" if none

varsSave == <<files, size_data, savePc, count, hand_type, resized_hand, actionIdx,
              sequence, index, outcome>>
varsYolo == <<yoloIn, yoloOut>>
varsAnn  == <<annFile, annPc, annArgs, annHandles, annErr, annBox>>
varsDet  == <<positions, detPc, detArgs, detPrior, detRet, detErr>>
varsDraw == <<frame, drawPc, drawArgs>>
varsCrop == <<cropPc, cropArgs, cropRegion, cropOut, cropErr>>
vars == <<varsSave, varsYolo, varsAnn, varsDet, varsDraw, varsCrop>>

(***************************************************************************)
(* Arithmetic helpers                                                      *)
(***************************************************************************)
Abs(n) == IF n < 0 THEN -n ELSE n

Max2(a, b) == IF a >= b THEN a ELSE b

Min2(a, b) == IF a <= b THEN a ELSE b

SetMin(S) == CHOOSE m \in S : \A n \in S : m <= n

SetMax(S) == CHOOSE m \in S : \A n \in S : m >= n

\* Python's int() of the real num/den (den > 0): truncation toward zero.
IntTrunc(num, den) == IF num >= 0 THEN num \div den ELSE -((-num) \div den)

(***************************************************************************)
(* __init__                                                                *)
(***************************************************************************)
save_frequency == 10

offset == 10

\* self.actions, as configured by the caller
actions == <<"fist", "palm">>

(***************************************************************************)
(* Save_resized_hand                                                       *)
(***************************************************************************)
MaxCalls == 2

MaxCount == 2

HandTypes == {"Left", "Right"}

SizeDataValues == {15, 20}

\* A path DATA_PATH/<action>/sequence <n> capture <hand_type> <count>[_<idx>].png;
\* idx = 0 stands for the canonical name, without suffix.
Path(action, seq, ht, c, idx) ==
    [action |-> action, sequence |-> seq, hand_type |-> ht, count |-> c, idx |-> idx]

\* Files that may already be on disk when the program starts.
PreExisting ==
    { Path(actions[1], 0, "Left", 1, 0),
      Path(actions[1], 0, "Left", 1, 1),
      Path(actions[1], 0, "Left", 1, 2),
      Path(actions[2], 9, "Left", 2, 0) }

exists(fs, p) == p \in DOMAIN fs

\* cv2.imwrite(image_path, resized_hand): creates or replaces the file.
imwrite(fs, p, img) ==
    [q \in DOMAIN fs \cup {p} |-> IF q = p THEN img ELSE fs[q]]

\* The comparison with the floor division "//" in place of "/".
QuotaFloorDiv(c, total) == c >= total \div save_frequency

\* count >= self.size_data / self.save_frequency, with "/" the true division:
\* count is compared with the quotient q + r / save_frequency.
QuotaReached(c, total) ==
    LET q == total \div save_frequency
        r == total % save_frequency
    IN  c > q \/ (c = q /\ r = 0)

\* The caller invokes Save_resized_hand(resized_hand, count, hand_type).
SaveCall(img, c, ht) ==
    /\ savePc = "idle"
    /\ resized_hand < MaxCalls
    /\ resized_hand' = img
    /\ count' = c
    /\ hand_type' = ht
    /\ actionIdx' = 1
    /\ sequence' = 0
    /\ index' = 0
    /\ outcome' = "none"
    /\ savePc' = "loop"
    /\ UNCHANGED <<files, size_data>>

CanonicalPath == Path(actions[actionIdx], sequence, hand_type, count, 0)

ProbePath == Path(actions[actionIdx], sequence, hand_type, count, index)

\* Advance "for sequence in range(save_frequency)" inside "for action in actions".
NextIteration ==
    /\ IF sequence + 1 < save_frequency
         THEN sequence' = sequence + 1 /\ actionIdx' = actionIdx
         ELSE sequence' = 0 /\ actionIdx' = actionIdx + 1
    /\ savePc' = "loop"

\* Lines 226-230 and 240: the canonical path is free and is written.
SaveWriteCanonical ==
    /\ savePc = "loop"
    /\ actionIdx <= Len(actions)
    /\ ~exists(files, CanonicalPath)
    /\ files' = imwrite(files, CanonicalPath, resized_hand)
    /\ NextIteration
    /\ UNCHANGED <<size_data, count, hand_type, resized_hand, index, outcome>>

\* Lines 230-240 without the search for a free name: the existing file is replaced.
SaveProbeStartOverwrite ==
    /\ savePc = "loop"
    /\ actionIdx <= Len(actions)
    /\ exists(files, CanonicalPath)
    /\ files' = imwrite(files, CanonicalPath, resized_hand)
    /\ NextIteration
    /\ UNCHANGED <<size_data, count, hand_type, resized_hand, index, outcome>>

\* Lines 230-232: the canonical path exists, probing starts at index 1.
SaveProbeStart ==
    /\ savePc = "loop"
    /\ actionIdx <= Len(actions)
    /\ exists(files, CanonicalPath)
    /\ index' = 1
    /\ savePc' = "probe"
    /\ UNCHANGED <<files, size_data, count, hand_type, resized_hand, actionIdx,
                   sequence, outcome>>

\* Lines 233-239: the probed name exists, try the next index.
SaveProbeNext ==
    /\ savePc = "probe"
    /\ exists(files, ProbePath)
    /\ index' = index + 1
    /\ UNCHANGED <<files, size_data, savePc, count, hand_type, resized_hand,
                   actionIdx, sequence, outcome>>

\* Lines 236-240: the probed name is free and is written.
SaveProbeWrite ==
    /\ savePc = "probe"
    /\ ~exists(files, ProbePath)
    /\ files' = imwrite(files, ProbePath, resized_hand)
    /\ NextIteration
    /\ UNCHANGED <<size_data, count, hand_type, resized_hand, index, outcome>>

\* Lines 241-242: after the loops, the quota is reached: exit(0).
SaveExit ==
    /\ savePc = "loop"
    /\ actionIdx > Len(actions)
    /\ QuotaReached(count, size_data)
    /\ savePc' = "exited"
    /\ outcome' = "exited"
    /\ UNCHANGED <<files, size_data, count, hand_type, resized_hand, actionIdx,
                   sequence, index>>

\* Line 241: after the loops, the quota is not reached: the call returns.
SaveReturn ==
    /\ savePc = "loop"
    /\ actionIdx > Len(actions)
    /\ ~QuotaReached(count, size_data)
    /\ savePc' = "idle"
    /\ outcome' = "returned"
    /\ UNCHANGED <<files, size_data, count, hand_type, resized_hand, actionIdx,
                   sequence, index>>

(***************************************************************************)
(* convert_to_yolo_format                                                  *)
(***************************************************************************)
\* Sub-pixel resolution: pixel-space reals are integers counted in 1/LmDen pixel.
LmDen == 4

\* Long division: <<floor(n * 10^k / d), the remainder>> for n >= 0, d > 0.
RECURSIVE Shifted(_, _, _)
Shifted(n, d, k) ==
    IF k = 0 THEN <<n \div d, n % d>>
    ELSE LET prev == Shifted(n, d, k - 1)
         IN  <<prev[1] * 10 + (prev[2] * 10) \div d, (prev[2] * 10) % d>>

\* Nearest integer to n * 10^6 / d (n >= 0, d > 0), ties to the even neighbour.
RoundHalfEven(n, d) ==
    LET s == Shifted(n, d, 6)
    IN  IF 2 * s[2] < d THEN s[1]
        ELSE IF 2 * s[2] > d THEN s[1] + 1
        ELSE IF s[1] % 2 = 0 THEN s[1] ELSE s[1] + 1

\* f"{v:.6f}" of the real v = num/den (den > 0): the six-decimal numeral, given as
\* the integer it spells without the point ("0.500000" is 500000).  The quotient is
\* rounded to the nearest numeral, a tie going to the even one, as the code does for
\* a quotient that is a binary fraction.  Where the exact quotient is a tie and no
\* binary fraction, the code rounds the nearest double, which lies on either side;
\* the image sizes below have no such quotient.
Format6(num, den) ==
    IF num >= 0 THEN RoundHalfEven(num, den) ELSE -RoundHalfEven(-num, den)

\* Lines 73-74 without abs(): a reversed box gets a negative width or height.
convert_no_abs(image_width, image_height, key_points) ==
    << Format6(key_points[1] + key_points[3], 2 * image_width * LmDen),
       Format6(key_points[2] + key_points[4], 2 * image_height * LmDen),
       Format6(key_points[3] - key_points[1], image_width * LmDen),
       Format6(key_points[4] - key_points[2], image_height * LmDen) >>

\* key_points = <<x1, y1, x2, y2>> in 1/LmDen pixel; image_width, image_height in pixels.
convert_to_yolo_format(image_width, image_height, key_points) ==
    << Format6(key_points[1] + key_points[3], 2 * image_width * LmDen),
       Format6(key_points[2] + key_points[4], 2 * image_height * LmDen),
       Format6(Abs(key_points[3] - key_points[1]), image_width * LmDen),
       Format6(Abs(key_points[4] - key_points[2]), image_height * LmDen) >>

\* Image sizes <<height, width>> (image.shape without the channel count).
YoloShapes == { <<50, 100>>, <<3, 7>>, <<16, 16>> }

\* Box coordinates tried along an axis of n pixels: inside, on and beyond the edges.
AxisCoords(n) ==
    { -LmDen, 0, 1, (n * LmDen) \div 2, n * LmDen - 1, n * LmDen, n * LmDen + LmDen }

YoloInputs ==
    UNION { { [w |-> sh[2], h |-> sh[1], box |-> <<x1, y1, x2, y2>>] :
                x1 \in AxisCoords(sh[2]), x2 \in AxisCoords(sh[2]),
                y1 \in AxisCoords(sh[1]), y2 \in AxisCoords(sh[1]) } : sh \in YoloShapes }

YoloConvert ==
    /\ yoloOut = <<>>
    /\ yoloOut' = convert_to_yolo_format(yoloIn.w, yoloIn.h, yoloIn.box)
    /\ UNCHANGED yoloIn

(***************************************************************************)
(* The detector's results (mediapipe's results object)                     *)
(***************************************************************************)
MaxHands == 2

\* Landmarks <<x, y, z>>: numerators of the normalised coordinates x/LmDen, ...
LmA == <<0, 1, 0>>
LmB == <<1, 2, -1>>
LmC == <<3, 3, 1>>
LmD == <<4, 0, 2>>

\* hand_landmarks.landmark of the hands the detector may report.
HandLandmarks == { <<LmA, LmB>>, <<LmC, LmD>>, <<LmB, LmC, LmB>> }

Labels == {"Left", "Right"}

\* No hand in the frame: mediapipe leaves both attributes None (is_none).
NoHands == [is_none |-> TRUE, multi_hand_landmarks |-> <<>>, multi_handedness |-> <<>>]

\* One entry per hand: hs[i] = [label, landmark].
ResultsOf(hs) ==
    [is_none |-> FALSE,
     multi_hand_landmarks |-> [i \in 1..Len(hs) |-> hs[i].landmark],
     multi_handedness     |-> [i \in 1..Len(hs) |-> hs[i].label]]

Hands(labels) == [label : labels, landmark : HandLandmarks]

HandLists(labels) ==
    UNION { [1..n -> Hands(labels)] : n \in 0..MaxHands }

\* Every result: absent lists, empty lists, one hand, several hands.
Results(labels) == {NoHands} \cup { ResultsOf(hs) : hs \in HandLists(labels) }

NumHands(results) == IF results.is_none THEN 0 ELSE Len(results.multi_hand_landmarks)

(***************************************************************************)
(* anotation_data                                                          *)
(***************************************************************************)
MaxAnnCalls == 2

AnnShapes == { <<480, 640>> }

ClassIndexes == {0, 1}

\* Lines 105-108: x_min, y_min = inf and x_max, y_max = -inf, before any hand.
NoEnvelope == <<>>

\* Lines 111-121: one hand's keypoints (x_rel, y_rel) and their extremes.
HandBox(landmark, alto, ancho) ==
    LET xs == { landmark[i][1] * ancho : i \in 1..Len(landmark) }
        ys == { landmark[i][2] * alto : i \in 1..Len(landmark) }
    IN  <<SetMin(xs), SetMin(ys), SetMax(xs), SetMax(ys)>>

\* The loop without lines 123-126: each hand replaces the box, the last one stays.
EnvelopeLastHand(hands, i, env, alto, ancho) ==
    HandBox(hands[Len(hands)], alto, ancho)

\* Lines 110-126: the loop over the hands from hand i on, env the running extremes.
RECURSIVE EnvelopeFrom(_, _, _, _, _)
EnvelopeFrom(hands, i, env, alto, ancho) ==
    IF i > Len(hands) THEN env
    ELSE LET hb == HandBox(hands[i], alto, ancho)
         IN  EnvelopeFrom(hands, i + 1,
                          IF env = NoEnvelope THEN hb
                          ELSE << Min2(env[1], hb[1]), Min2(env[2], hb[2]),
                                  Max2(env[3], hb[3]), Max2(env[4], hb[4]) >>,
                          alto, ancho)

\* Lines 128-131: the 20-pixel margin.
Pad(env) ==
    << env[1] - 20 * LmDen, env[2] - 20 * LmDen, env[3] + 20 * LmDen, env[4] + 20 * LmDen >>

\* The commented-out predecessor, lines 79-100: one line per hand.
AnnBodyPerHand(results, shape, class_index) ==
    IF results.is_none
      THEN [err |-> "TypeError", box |-> <<>>, lines |-> <<>>]
    ELSE IF Len(results.multi_hand_landmarks) = 0
      THEN [err |-> "none", box |-> <<>>, lines |-> <<>>]
    ELSE LET alto  == shape[1]
             ancho == shape[2]
             hs    == results.multi_hand_landmarks
             box(i) == Pad(HandBox(hs[i], alto, ancho))
         IN  [err |-> "none", box |-> box(Len(hs)),
              lines |-> [i \in 1..Len(hs) |->
                           <<class_index>> \o convert_to_yolo_format(ancho, alto, box(i))]]

\* The body of the with block, lines 105-134:
\* [err, box (the key_points converted), lines (what f.write appends)].
AnnBody(results, shape, class_index) ==
    IF results.is_none
      THEN [err |-> "TypeError", box |-> <<>>, lines |-> <<>>]
    ELSE IF Len(results.multi_hand_landmarks) = 0
      THEN [err |-> "UnboundLocalError", box |-> <<>>, lines |-> <<>>]
    ELSE LET alto  == shape[1]
             ancho == shape[2]
             box   == Pad(EnvelopeFrom(results.multi_hand_landmarks, 1,
                                       NoEnvelope, alto, ancho))
         IN  [err |-> "none", box |-> box,
              lines |-> << <<class_index>> \o convert_to_yolo_format(ancho, alto, box) >>]

\* Leaving the with block (line 104) closes f, with or without an exception.
WithExit(handles, err) == handles - 1

\* A line left in the file by an earlier run.
OldLine == <<0, 500000, 500000, 250000, 250000>>

\* The call and line 104: open(annotation_file, 'a').
AnnCall(results, shape, class_index) ==
    /\ annPc = "idle"
    /\ Len(annFile) < MaxAnnCalls
    /\ annArgs' = [results |-> results, shape |-> shape, class_index |-> class_index]
    /\ annHandles' = annHandles + 1
    /\ annErr' = "none"
    /\ annBox' = <<>>
    /\ annPc' = "body"
    /\ UNCHANGED annFile

\* Lines 105-134 run to the end: the line is written.
AnnWrite ==
    /\ annPc = "body"
    /\ LET b == AnnBody(annArgs.results, annArgs.shape, annArgs.class_index)
       IN  /\ b.err = "none"
           /\ annFile' = annFile \o b.lines
           /\ annBox' = b.box
    /\ annPc' = "exit"
    /\ UNCHANGED <<annArgs, annHandles, annErr>>

\* Lines 105-134 raise: nothing is written.
AnnRaise ==
    /\ annPc = "body"
    /\ LET b == AnnBody(annArgs.results, annArgs.shape, annArgs.class_index)
       IN  /\ b.err # "none"
           /\ annErr' = b.err
    /\ annPc' = "exit"
    /\ UNCHANGED <<annFile, annArgs, annHandles, annBox>>

\* The with statement's exit: f is closed, the exception (if any) propagates.
AnnExit ==
    /\ annPc = "exit"
    /\ annHandles' = WithExit(annHandles, annErr)
    /\ annPc' = "idle"
    /\ UNCHANGED <<annFile, annArgs, annErr, annBox>>

(***************************************************************************)
(* Detect_hand_type and get_position                                       *)
(***************************************************************************)
MaxAccum == 2

\* The caller's hand_type values: a label, or "all".
Filters == {"Left", "Right", "all"}

DetShapes == { <<480, 640>>, <<3, 7>> }

\* Line 161: one landmark in pixel space; z is scaled by the width.
PixelPoint(lm, alto, ancho) == <<lm[1] * ancho, lm[2] * alto, lm[3] * ancho>>

\* Lines 159-161: the inner loop over one hand's landmarks.
HandPoints(landmark, alto, ancho) ==
    [i \in 1..Len(landmark) |-> PixelPoint(landmark[i], alto, ancho)]

\* Lines 158-161: the points of the hands from hand i on, in order.
RECURSIVE PointsFrom(_, _, _, _)
PointsFrom(hands, i, alto, ancho) ==
    IF i > Len(hands) THEN <<>>
    ELSE HandPoints(hands[i], alto, ancho) \o PointsFrom(hands, i + 1, alto, ancho)

\* get_position(positions, results, copie_img): appends every hand's landmarks.
get_position(acc, results, shape) ==
    acc \o PointsFrom(results.multi_hand_landmarks, 1, shape[1], shape[2])

\* Lines 149-153: the loop body for the hand at position i.
DetectStep(ht, results, acc, shape, i) ==
    LET acc1 == IF results.multi_handedness[i] = ht
                  THEN get_position(acc, results, shape) ELSE acc
    IN  IF ht = "all" THEN get_position(acc1, results, shape) ELSE acc1

\* The loop with its return moved after it: every hand is examined.
RECURSIVE DetectLoopAll(_, _, _, _, _)
DetectLoopAll(ht, results, acc, shape, i) ==
    IF i > Len(results.multi_handedness) THEN acc
    ELSE DetectLoopAll(ht, results, DetectStep(ht, results, acc, shape, i), shape, i + 1)

Detect_every_hand(ht, results, acc, shape) ==
    IF results.is_none
      THEN [positions |-> acc, ret |-> "nothing", err |-> "TypeError"]
    ELSE [positions |-> DetectLoopAll(ht, results, acc, shape, 1),
          ret |-> "positions", err |-> "none"]

\* Detect_hand_type(hand_type, results, positions, copie_img), lines 148-154:
\* the accumulator afterwards, what is returned, the exception raised.
Detect_hand_type(ht, results, acc, shape) ==
    IF results.is_none
      THEN [positions |-> acc, ret |-> "nothing", err |-> "TypeError"]
    ELSE IF Len(results.multi_handedness) = 0
      THEN [positions |-> acc, ret |-> "None", err |-> "none"]
    ELSE [positions |-> DetectStep(ht, results, acc, shape, 1),
          ret |-> "positions", err |-> "none"]

\* A point already in the accumulator.
OldPoint == <<8, 8, 0>>

DetCall(ht, results, shape) ==
    /\ detPc \in {"idle", "done"}
    /\ Len(positions) < MaxAccum
    /\ detArgs' = [hand_type |-> ht, results |-> results, shape |-> shape]
    /\ detPrior' = positions
    /\ detRet' = "nothing"
    /\ detErr' = "none"
    /\ detPc' = "body"
    /\ UNCHANGED positions

DetBody ==
    /\ detPc = "body"
    /\ LET r == Detect_hand_type(detArgs.hand_type, detArgs.results, positions, detArgs.shape)
       IN  /\ positions' = r.positions
           /\ detRet' = r.ret
           /\ detErr' = r.err
    /\ detPc' = "done"
    /\ UNCHANGED <<detArgs, detPrior>>

(***************************************************************************)
(* Bounding box of a list of positions (Draw_Bound_Boxes, Get_image_resized)*)
(***************************************************************************)
\* Lines 171-174 / 197-200: <<x_min, y_min, x_max, y_max>>, each int() of an extreme.
IntBox(ps) ==
    LET xs == { ps[i][1] : i \in 1..Len(ps) }
        ys == { ps[i][2] : i \in 1..Len(ps) }
    IN  << IntTrunc(SetMin(xs), LmDen), IntTrunc(SetMin(ys), LmDen),
           IntTrunc(SetMax(xs), LmDen), IntTrunc(SetMax(ys), LmDen) >>

\* Non-empty position lists over a set of points: one point, or two.
PositionLists(P) == { <<p>> : p \in P } \cup { <<p, q>> : p \in P, q \in P }

(***************************************************************************)
(* Draw_Bound_Boxes                                                        *)
(***************************************************************************)
MaxDraws == 2

DrawShapes == { <<90, 160>>, <<89, 159>> }

\* Coordinates around the guard's limits: 49.75 and 50, 24.75 and 25, 120 and 60.
DrawPoints ==
    { <<x, y, 0>> : x \in {50 * LmDen - 1, 50 * LmDen, 120 * LmDen},
                    y \in {25 * LmDen - 1, 25 * LmDen, 60 * LmDen} }

\* The guard with its first comparison off by one (>= -1 for >= 0).
DrawGuardLoose(x1, y1, x2, y2, shape) ==
    /\ y1 - offset - 15 >= -1
    /\ y2 - offset + 40 <= shape[1]
    /\ x1 - offset - 40 >= 0
    /\ x2 - offset + 50 <= shape[2]

\* Lines 179-181.
DrawGuard(x1, y1, x2, y2, shape) ==
    /\ y1 - offset - 15 >= 0
    /\ y2 - offset + 40 <= shape[1]
    /\ x1 - offset - 40 >= 0
    /\ x2 - offset + 50 <= shape[2]

\* Draw_Bound_Boxes(positions, frame, cls): the shapes it draws on the frame.
Draw_Bound_Boxes(ps, shape, cls) ==
    LET b      == IntBox(ps)
        width  == b[3] - b[1]
        height == b[4] - b[2]
        x1     == b[1]
        y1     == b[2]
        x2     == b[1] + width
        y2     == b[2] + height
    IN  IF DrawGuard(x1, y1, x2, y2, shape)
          THEN << [kind |-> "rectangle",
                   pt1 |-> <<x1 - offset - 40, y1 - offset - 15>>,
                   pt2 |-> <<x2 - offset + 50, y2 - offset + 40>>],
                  [kind |-> "putText", text |-> cls,
                   pt1 |-> <<x1 - offset - 40, y1 - offset - 20>>,
                   pt2 |-> <<x1 - offset - 40, y1 - offset - 20>>] >>
          ELSE <<>>

DrawCall(ps, shape, cls) ==
    /\ drawPc \in {"idle", "done"}
    /\ Len(frame) < 2 * MaxDraws
    /\ drawArgs' = [positions |-> ps, shape |-> shape, cls |-> cls]
    /\ drawPc' = "body"
    /\ UNCHANGED frame

DrawBody ==
    /\ drawPc = "body"
    /\ frame' = frame \o Draw_Bound_Boxes(drawArgs.positions, drawArgs.shape, drawArgs.cls)
    /\ drawPc' = "done"
    /\ UNCHANGED drawArgs

(***************************************************************************)
(* Get_image_resized                                                       *)
(***************************************************************************)
\* self.imgSize, as configured by the caller
imgSize == 300

CropShapes == { <<100, 100>>, <<480, 640>>, <<60, 200>> }

\* Points inside, on and beyond the edges of the frames above.
CropPoints ==
    { <<x * LmDen + dx, y * LmDen, 0>> :
        x \in {-10, 0, 30, 100, 200}, dx \in {0, 1}, y \in {-10, 0, 60, 600} }

\* Lines 196-210: the corners <<x1, y1, x2, y2>> of the slice.
CropRegion(ps, shape) ==
    LET b        == IntBox(ps)
        width    == b[3] - b[1]
        height   == b[4] - b[2]
        centro_x == IntTrunc(b[1] + b[3], 2)
        centro_y == IntTrunc(b[2] + b[4], 2)
        lado     == Max2(width, height)
        x1       == Max2(0, centro_x - IntTrunc(lado, 2) - 50)
        y1       == Max2(0, centro_y - IntTrunc(lado, 2) - 50)
        ancho    == Min2(shape[2] - x1, lado + 100)
        alto     == Min2(shape[1] - y1, lado + 100)
    IN  <<x1, y1, x1 + ancho, y1 + alto>>

\* copie_img[y1:y2, x1:x2]: <<rows, columns>> of the slice of an alto x ancho array
\* (x1, y1 >= 0; a bound past the end is cut to the end, a negative one counts from it).
SliceShape(r, shape) ==
    LET bound(v, n) == IF v < 0 THEN Max2(0, n + v) ELSE Min2(v, n)
        rows == bound(r[4], shape[1]) - bound(r[2], shape[1])
        cols == bound(r[3], shape[2]) - bound(r[1], shape[2])
    IN  <<Max2(0, rows), Max2(0, cols)>>

\* Lines 211-214: cv2.resize refuses an empty source; otherwise imgSize x imgSize.
Get_image_resized(ps, shape) ==
    LET r  == CropRegion(ps, shape)
        sl == SliceShape(r, shape)
    IN  IF sl[1] = 0 \/ sl[2] = 0
          THEN [region |-> r, out |-> <<>>, err |-> "cv2.error"]
          ELSE [region |-> r, out |-> <<imgSize, imgSize>>, err |-> "none"]

CropInputs ==
    { [positions |-> ps, shape |-> sh] : ps \in PositionLists(CropPoints), sh \in CropShapes }

CropBody ==
    /\ cropPc = "body"
    /\ LET r == Get_image_resized(cropArgs.positions, cropArgs.shape)
       IN  /\ cropRegion' = r.region
           /\ cropOut' = r.out
           /\ cropErr' = r.err
    /\ cropPc' = "done"
    /\ UNCHANGED cropArgs

(***************************************************************************)
(* Specifications: one per operation, the other operations' state at rest  *)
(***************************************************************************)
\* The state after construction.  Under the specification of component comp that
\* component's inputs range over their sets; the other components stay at rest.
Init(comp) ==
    /\ files \in IF comp = "Save" THEN { [p \in S |-> 0] : S \in SUBSET PreExisting }
                 ELSE { <<>> }
    /\ size_data \in IF comp = "Save" THEN SizeDataValues ELSE {20}
    /\ savePc = "idle"
    /\ count = 0
    /\ hand_type = "Left"
    /\ resized_hand = 0
    /\ actionIdx = 1
    /\ sequence = 0
    /\ index = 0
    /\ outcome = "none"
    /\ yoloIn \in IF comp = "Yolo" THEN YoloInputs
                  ELSE { [w |-> 1, h |-> 1, box |-> <<0, 0, 0, 0>>] }
    /\ yoloOut = <<>>
    /\ annFile \in IF comp = "Ann" THEN { <<>>, <<OldLine>> } ELSE { <<>> }
    /\ annPc = "idle"
    /\ annArgs = [results |-> NoHands, shape |-> <<1, 1>>, class_index |-> 0]
    /\ annHandles = 0
    /\ annErr = "none"
    /\ annBox = <<>>
    /\ positions \in IF comp = "Det" THEN { <<>>, <<OldPoint>> } ELSE { <<>> }
    /\ detPc = "idle"
    /\ detArgs = [hand_type |-> "all", results |-> NoHands, shape |-> <<1, 1>>]
    /\ detPrior = <<>>
    /\ detRet = "nothing"
    /\ detErr = "none"
    /\ frame = <<>>
    /\ drawPc = "idle"
    /\ drawArgs = [positions |-> <<>>, shape |-> <<1, 1>>, cls |-> ""]
    /\ cropPc = "body"
    /\ cropArgs \in IF comp = "Crop" THEN CropInputs
                    ELSE { [positions |-> <<<<0, 0, 0>>>>, shape |-> <<1, 1>>] }
    /\ cropRegion = <<>>
    /\ cropOut = <<>>
    /\ cropErr = "none"

NextSave ==
    \/ \E c \in 1..MaxCount, ht \in HandTypes :
         SaveCall(resized_hand + 1, c, ht) /\ UNCHANGED <<varsYolo, varsAnn, varsDet, varsDraw, varsCrop>>
    \/ SaveWriteCanonical /\ UNCHANGED <<varsYolo, varsAnn, varsDet, varsDraw, varsCrop>>
    \/ SaveProbeStart /\ UNCHANGED <<varsYolo, varsAnn, varsDet, varsDraw, varsCrop>>
    \/ SaveProbeNext /\ UNCHANGED <<varsYolo, varsAnn, varsDet, varsDraw, varsCrop>>
    \/ SaveProbeWrite /\ UNCHANGED <<varsYolo, varsAnn, varsDet, varsDraw, varsCrop>>
    \/ SaveExit /\ UNCHANGED <<varsYolo, varsAnn, varsDet, varsDraw, varsCrop>>
    \/ SaveReturn /\ UNCHANGED <<varsYolo, varsAnn, varsDet, varsDraw, varsCrop>>

SpecSave ==
    /\ Init("Save")
    /\ [][NextSave]_vars

NextYolo ==
    YoloConvert /\ UNCHANGED <<varsSave, varsAnn, varsDet, varsDraw, varsCrop>>

SpecYolo ==
    /\ Init("Yolo")
    /\ [][NextYolo]_vars

NextAnn ==
    \/ \E results \in Results({"Left"}), shape \in AnnShapes, ci \in ClassIndexes :
         AnnCall(results, shape, ci) /\ UNCHANGED <<varsSave, varsYolo, varsDet, varsDraw, varsCrop>>
    \/ AnnWrite /\ UNCHANGED <<varsSave, varsYolo, varsDet, varsDraw, varsCrop>>
    \/ AnnRaise /\ UNCHANGED <<varsSave, varsYolo, varsDet, varsDraw, varsCrop>>
    \/ AnnExit /\ UNCHANGED <<varsSave, varsYolo, varsDet, varsDraw, varsCrop>>

SpecAnn ==
    /\ Init("Ann")
    /\ [][NextAnn]_vars

NextDet ==
    \/ \E ht \in Filters, results \in Results(Labels), shape \in DetShapes :
         DetCall(ht, results, shape) /\ UNCHANGED <<varsSave, varsYolo, varsAnn, varsDraw, varsCrop>>
    \/ DetBody /\ UNCHANGED <<varsSave, varsYolo, varsAnn, varsDraw, varsCrop>>

SpecDet ==
    /\ Init("Det")
    /\ [][NextDet]_vars

NextDraw ==
    \/ \E ps \in PositionLists(DrawPoints), shape \in DrawShapes, cls \in {"fist"} :
         DrawCall(ps, shape, cls) /\ UNCHANGED <<varsSave, varsYolo, varsAnn, varsDet, varsCrop>>
    \/ DrawBody /\ UNCHANGED <<varsSave, varsYolo, varsAnn, varsDet, varsCrop>>

SpecDraw ==
    /\ Init("Draw")
    /\ [][NextDraw]_vars

NextCrop ==
    CropBody /\ UNCHANGED <<varsSave, varsYolo, varsAnn, varsDet, varsDraw>>

SpecCrop ==
    /\ Init("Crop")
    /\ [][NextCrop]_vars

(***************************************************************************)
(* Properties                                                              *)
(***************************************************************************)
\* ---- Save_resized_hand

\* The k-th name tried for the image of the current iteration (0: the canonical name).
NameTried(k) == Path(actions[actionIdx], sequence, hand_type, count, k)

\* C1: a write never targets a path that existed before it.  Every file keeps its
\* content across every step, and a step that writes creates exactly one file: the
\* canonical name if it is free, otherwise the suffixed name _k with the smallest
\* k >= 1 that is free.
C1_NoOverwrite ==
    [][ /\ \A p \in DOMAIN files : p \in DOMAIN files' /\ files'[p] = files[p]
        /\ files' # files =>
             \E k \in 0..Cardinality(DOMAIN files) :
                /\ \A j \in 0..(k - 1) : NameTried(j) \in DOMAIN files
                /\ NameTried(k) \notin DOMAIN files
                /\ DOMAIN files' = DOMAIN files \cup {NameTried(k)}
                /\ files'[NameTried(k)] = resized_hand ]_vars

\* The canonical name and _1 existed, the image went to _2 and both kept their content.
C1_Witness ==
    \E p \in DOMAIN files :
        /\ p.idx = 2
        /\ files[p] > 0
        /\ Path(p.action, p.sequence, p.hand_type, p.count, 0) \in DOMAIN files
        /\ files[Path(p.action, p.sequence, p.hand_type, p.count, 0)] = 0
        /\ files[Path(p.action, p.sequence, p.hand_type, p.count, 1)] = 0

\* An image of the current call is stored for action position a and sequence s.
StoredThisCall(a, s) ==
    \E p \in DOMAIN files :
        /\ p.action = actions[a] /\ p.sequence = s
        /\ p.hand_type = hand_type /\ p.count = count
        /\ files[p] = resized_hand

AllStoredThisCall ==
    \A a \in 1..Len(actions), s \in 0..(save_frequency - 1) : StoredThisCall(a, s)

\* C2: a call ends the process iff count * save_frequency >= size_data, and only
\* after it has written one image for every action and every sequence index;
\* below the threshold it returns normally (also after writing them all), and the
\* process never ends in the middle of a call.
C2_ExitIffQuota ==
    /\ outcome = "exited" => count * save_frequency >= size_data /\ AllStoredThisCall
    /\ outcome = "returned" => count * save_frequency < size_data /\ AllStoredThisCall
    /\ (savePc = "exited") <=> (outcome = "exited")
    /\ savePc \in {"loop", "probe"} => outcome = "none"

C2_Witness ==
    /\ outcome = "exited"
    /\ count * save_frequency = size_data

\* ---- convert_to_yolo_format

BoxInside(in) ==
    /\ \A i \in {1, 3} : 0 <= in.box[i] /\ in.box[i] <= in.w * LmDen
    /\ \A i \in {2, 4} : 0 <= in.box[i] /\ in.box[i] <= in.h * LmDen

\* C8: for a box inside the image (corners in either order) the four values lie in
\* [0, 1]; for the full image [0, 0, W, H] they are exactly 0.5, 0.5, 1.0, 1.0.
C8_YoloBounds ==
    yoloOut # <<>> =>
        /\ BoxInside(yoloIn) => \A i \in 1..4 : 0 <= yoloOut[i] /\ yoloOut[i] <= 1000000
        /\ yoloIn.box = <<0, 0, yoloIn.w * LmDen, yoloIn.h * LmDen>> =>
              yoloOut = <<500000, 500000, 1000000, 1000000>>

C8_Witness ==
    /\ yoloOut # <<>>
    /\ BoxInside(yoloIn)
    /\ yoloIn.box[1] > yoloIn.box[3]
    /\ yoloIn.box[2] > yoloIn.box[4]
    /\ yoloOut[3] > 0 /\ yoloOut[4] > 0

\* ---- anotation_data

\* The pixel-space keypoints <<x, y>> of all hands of a result together.
AllKeypoints(results, shape) ==
    UNION { { <<results.multi_hand_landmarks[h][i][1] * shape[2],
               results.multi_hand_landmarks[h][i][2] * shape[1]>> :
                 i \in 1..Len(results.multi_hand_landmarks[h]) } :
            h \in 1..Len(results.multi_hand_landmarks) }

\* The min/max envelope <<x_min, y_min, x_max, y_max>> of a set of points.
EnvelopeOf(pts) ==
    << SetMin({p[1] : p \in pts}), SetMin({p[2] : p \in pts}),
       SetMax({p[1] : p \in pts}), SetMax({p[2] : p \in pts}) >>

\* The box of the claim: the envelope of all hands, 20 pixels wider on each side.
PaddedUnionBox(results, shape) ==
    LET e == EnvelopeOf(AllKeypoints(results, shape))
    IN  <<e[1] - 20 * LmDen, e[2] - 20 * LmDen, e[3] + 20 * LmDen, e[4] + 20 * LmDen>>

AnnCompleted == annPc \in {"exit", "idle"} /\ annErr = "none" /\ NumHands(annArgs.results) >= 1

\* C3: with at least one hand, the box handed to the YOLO conversion is the envelope
\* over the points of all hands together, enlarged by 20 pixels on each side, so its
\* width and height are the raw envelope's plus 40 pixels.
C3_UnionBox ==
    AnnCompleted =>
        LET e == EnvelopeOf(AllKeypoints(annArgs.results, annArgs.shape))
        IN  /\ annBox = PaddedUnionBox(annArgs.results, annArgs.shape)
            /\ annBox[3] - annBox[1] = (e[3] - e[1]) + 40 * LmDen
            /\ annBox[4] - annBox[2] = (e[4] - e[2]) + 40 * LmDen

\* Two hands, and the box is the padded box of neither of them alone.
C3_Witness ==
    /\ AnnCompleted
    /\ annPc = "exit"
    /\ NumHands(annArgs.results) = 2
    /\ \A h \in 1..2 :
          annBox # Pad(HandBox(annArgs.results.multi_hand_landmarks[h],
                               annArgs.shape[1], annArgs.shape[2]))

\* C4: with zero hands (absent or empty list) the call fails with an InvalidInput
\* error, appends no line and releases the file handle; the handle is released on
\* every other exit path as well.
C4_InvalidInput ==
    /\ annPc = "idle" => annHandles = 0
    /\ (annPc = "exit" /\ NumHands(annArgs.results) = 0) =>
          annErr = "InvalidInput" /\ annBox = <<>>

\* C9: the annotation file is append-only with one line per frame.  A call with at
\* least one hand appends exactly one line <<class_index, x_center, y_center, width,
\* height>>, however many hands there are; no other step changes the file; the lines
\* already there stay, unchanged and in order.
C9_AppendOneLine ==
    [][ /\ Len(annFile') >= Len(annFile)
        /\ SubSeq(annFile', 1, Len(annFile)) = annFile
        /\ IF annPc = "body" /\ NumHands(annArgs.results) >= 1
             THEN /\ Len(annFile') = Len(annFile) + 1
                  /\ annFile'[Len(annFile')] =
                        <<annArgs.class_index>> \o
                        convert_to_yolo_format(annArgs.shape[2], annArgs.shape[1],
                            PaddedUnionBox(annArgs.results, annArgs.shape))
             ELSE annFile' = annFile ]_vars

\* A frame with two hands has added one line after the line of an earlier run.
C9_Witness ==
    /\ annPc = "exit"
    /\ annErr = "none"
    /\ NumHands(annArgs.results) = 2
    /\ Len(annFile) = 2
    /\ annFile[1] = OldLine
    /\ annFile[2][1] = annArgs.class_index

\* ---- Detect_hand_type

Matches(ht, label) == ht = "all" \/ ht = label

\* The pixel-space points of exactly the hands that match the filter, in order.
RECURSIVE MatchingPoints(_, _, _, _)
MatchingPoints(ht, results, shape, i) ==
    IF i > NumHands(results) THEN <<>>
    ELSE (IF Matches(ht, results.multi_handedness[i])
            THEN HandPoints(results.multi_hand_landmarks[i], shape[1], shape[2])
            ELSE <<>>)
         \o MatchingPoints(ht, results, shape, i + 1)

\* C5: for every filter and every result (zero, one or several hands) the call
\* raises no error and returns the accumulator, which holds its prior contents
\* followed by the points of exactly the hands matching the filter.
C5_MatchingHands ==
    detPc = "done" =>
        /\ detErr = "none"
        /\ detRet = "positions"
        /\ positions = detPrior \o MatchingPoints(detArgs.hand_type, detArgs.results,
                                                  detArgs.shape, 1)

\* C10: with two or more hands, whether anything is appended is decided by the first
\* hand's label and the filter alone; if the first hand does not match a Left/Right
\* filter the accumulator is returned unchanged, whatever the later hands are.
C10_FirstHandOnly ==
    (detPc = "done" /\ NumHands(detArgs.results) >= 2) =>
        /\ (positions # detPrior) <=>
              Matches(detArgs.hand_type, detArgs.results.multi_handedness[1])
        /\ ~Matches(detArgs.hand_type, detArgs.results.multi_handedness[1]) =>
              positions = detPrior /\ detRet = "positions"

\* The first hand does not match the filter, the second does, nothing was appended.
C10_Witness ==
    /\ detPc = "done"
    /\ NumHands(detArgs.results) = 2
    /\ detArgs.hand_type # "all"
    /\ detArgs.results.multi_handedness[1] # detArgs.hand_type
    /\ detArgs.results.multi_handedness[2] = detArgs.hand_type
    /\ positions = detPrior
    /\ detRet = "positions"

\* ---- Draw_Bound_Boxes

\* The offset-padded rectangle <<left, top, right, bottom>> of a list of positions.
PaddedRect(ps) ==
    LET b == IntBox(ps)
    IN  <<b[1] - offset - 40, b[2] - offset - 15, b[3] - offset + 50, b[4] - offset + 40>>

RectInFrame(r, shape) ==
    /\ 0 <= r[1] /\ r[3] <= shape[2]
    /\ 0 <= r[2] /\ r[4] <= shape[1]

\* C7: the box and the caption are drawn only when the offset-padded rectangle lies
\* fully within the frame; in every other case, the boundary case
\* y_min - offset - 15 = -1 included, the frame buffer is left unchanged.
C7_DrawOnlyInside ==
    [][ drawPc = "body" =>
          LET r == PaddedRect(drawArgs.positions)
          IN  IF RectInFrame(r, drawArgs.shape)
                THEN /\ Len(frame') = Len(frame) + 2
                     /\ SubSeq(frame', 1, Len(frame)) = frame
                     /\ frame'[Len(frame) + 1].kind = "rectangle"
                     /\ frame'[Len(frame) + 1].pt1 = <<r[1], r[2]>>
                     /\ frame'[Len(frame) + 1].pt2 = <<r[3], r[4]>>
                     /\ frame'[Len(frame) + 2].kind = "putText"
                ELSE frame' = frame ]_vars

\* The call has run with only the top edge out, by one pixel, and drew nothing.
C7_Witness ==
    /\ drawPc = "done"
    /\ frame = <<>>
    /\ LET r == PaddedRect(drawArgs.positions)
       IN  /\ r[2] = -1
           /\ 0 <= r[1] /\ r[3] <= drawArgs.shape[2] /\ r[4] <= drawArgs.shape[1]

\* ---- Get_image_resized

\* C6: for every non-empty list of positions and every frame the crop region is a
\* non-empty rectangle inside the frame, 0 <= x1 < x2 <= W and 0 <= y1 < y2 <= H,
\* and the output is imgSize x imgSize.
C6_CropInsideFrame ==
    cropPc = "done" =>
        /\ 0 <= cropRegion[1] /\ cropRegion[1] < cropRegion[3]
        /\ cropRegion[3] <= cropArgs.shape[2]
        /\ 0 <= cropRegion[2] /\ cropRegion[2] < cropRegion[4]
        /\ cropRegion[4] <= cropArgs.shape[1]
        /\ cropErr = "none"
        /\ cropOut = <<imgSize, imgSize>>

====
